---- MODULE Spec2Model ----
(***************************************************************************)
(* Model of the video_upload web application:                              *)
(*   - lib/db.ts             connectDb and the process-wide cache          *)
(*   - api/auth/register     the register route (POST)                     *)
(*   - upload-auth endpoint  GET handler issuing ImageKit upload params    *)
(*   - register / login page form state, validation and submission         *)
(***************************************************************************)
EXTENDS Integers, Sequences, FiniteSets, TLC

\* ------------------------------------------------------------------------
\* Bounds of the model
\* ------------------------------------------------------------------------
NumRequests == 2
NumUploadRuns == 3

Requests == 1..NumRequests
UploadRuns == 1..NumUploadRuns

\* ------------------------------------------------------------------------
\* JavaScript values used by the server side
\* ------------------------------------------------------------------------
Null == "null"
Undefined == "undefined"
Connection == "mongoose.connection"

\* !v for the values a JSON body field can take here
Falsy(v) == v \in {Undefined, Null, ""}

ServerEmails == {"a@x.io", "b@x.io"}
ServerPasswords == {"Passw0rd!"}

\* await request.json(): the call throws (the body is not JSON), or yields
\* null (destructuring it at line 8 throws), or yields an object whose email
\* and password may be missing or empty
Bodies ==
    [parsed : {"object"}, email : ServerEmails \cup {Undefined, ""},
     password : ServerPasswords \cup {Undefined, ""}]
    \cup [parsed : {"throws", "null"}, email : {Undefined},
          password : {Undefined}]

NoResponse == [status |-> 0, text |-> ""]
MsgRequired == "Email and passowrd are required"
MsgExists == "User already registered"
MsgCreated == "User  registered successfully"
MsgFailed == "Failed to register user"

NoBody == [parsed |-> "throws", email |-> Undefined, password |-> Undefined]

VARIABLES
    cached,        \* global.mongoose: [conn, promise]
    connects,      \* one promise state per mongoose.connect invocation
    readyState,    \* mongoose.connection state
    users,         \* the User collection, in insertion order
    req,           \* per request: position and locals of POST / connectDb
    upload,        \* per run of the upload-auth endpoint: environment, response
    page,          \* the page component mounted in the browser
    formData,      \* the mounted form's field values
    errors,        \* the mounted form's errors object (keys may hold undefined)
    touched,       \* the mounted form's touched flags
    isLoading,     \* the mounted form's isLoading flag
    isGoogleLoading, \* the login page's isGoogleLoading flag
    inflight,      \* fetch / signIn calls whose result has not arrived
    sent,          \* the set of fetch / signIn calls made, each with the form it read
    location       \* the route the router was last pushed to

serverVars == <<cached, connects, readyState, users, req>>
uploadVars == <<upload>>
formVars ==
    <<page, formData, errors, touched, isLoading, isGoogleLoading, inflight,
      sent, location>>

\* promises are named by the index of the mongoose.connect call that made
\* them; 0 stands for null in cached.promise
NoPromise == 0

connectCalls == Len(connects)

NewRequest ==
    [pc |-> "idle", body |-> NoBody,
     stateAtCall |-> "", awaited |-> NoPromise, conn |-> Undefined,
     lookup |-> "pending", isExist |-> <<>>,
     connectDbCalls |-> 0, connectsStarted |-> 0, started |-> NoPromise,
     findOneCalls |-> 0, createCalls |-> 0,
     threw |-> "", response |-> NoResponse]

\* ------------------------------------------------------------------------
\* lib/db.ts
\* ------------------------------------------------------------------------

\* mongoose.connect(MONGODB_URI): a call on a disconnected connection starts
\* connecting; a call on a connecting or connected one joins it.
MongooseConnectState(s) == IF s = "disconnected" THEN "connecting" ELSE s

\* state of the promise mongoose.connect(...).then(...) returns
MongooseConnectPromise(s) == IF s = "connected" THEN "fulfilled" ELSE "pending"

\* cached.promise after the statement at line 20, p being the promise that
\* mongoose.connect(...).then(...) returned: the statement assigns nothing,
\* the promise is dropped and cached.promise keeps its value.
PromiseAfterConnect(c, p) == c.promise

\* `await p` for the values cached.promise can hold: a non-promise is
\* awaited as its own value, the connection promise yields mongoose.connection
AwaitSettled(p) == IF p = NoPromise THEN TRUE ELSE connects[p] # "pending"
AwaitRejected(p) == IF p = NoPromise THEN FALSE ELSE connects[p] = "rejected"
AwaitValue(p) == IF p = NoPromise THEN Null ELSE Connection

\* line 16: if (cached.conn) return cached.conn
ConnectDbReturnsCached(c) == c.conn # Null

\* line 19: if (!cached.promise)
ConnectDbStartsConnect(c) == c.promise = NoPromise

\* ------------------------------------------------------------------------
\* app/api/auth/register/route.ts
\* ------------------------------------------------------------------------

Respond(q, status, text) ==
    [q EXCEPT !.pc = "done", !.response = [status |-> status, text |-> text]]

\* line 18: User.findOne({ email }) is issued
IssueFindOne(q) == [q EXCEPT !.pc = "findOne", !.findOneCalls = @ + 1]

\* line 27: User.create({ email, password }) is issued
IssueCreate(q) == [q EXCEPT !.pc = "create", !.createCalls = @ + 1]

\* a catch block that issues the lookup again instead of answering
PostCatchRetry(q) ==
    IF q.findOneCalls > 0 THEN IssueFindOne(q) ELSE Respond(q, 400, MsgFailed)

\* a catch block that reports success
PostCatchAnswersCreated(q) == Respond(q, 201, MsgCreated)

\* a catch block that answers 500 Internal Server Error
PostCatchAnswers500(q) == Respond(q, 500, MsgFailed)

\* lines 37-44: catch (error) answers 400 and the handler returns
PostCatch(q) == Respond(q, 400, MsgFailed)

\* a check of the email alone
PostValidatesEmailOnly(b) == ~Falsy(b.email)

\* line 9: if (!email || !password) is not taken
PostValidates(b) == ~Falsy(b.email) /\ ~Falsy(b.password)

\* a route that never takes the branch of line 19
PostIgnoresLookup(isExist) == FALSE

\* line 19: if (isExist)
PostRejectsExisting(isExist) == isExist # <<>>

\* a route that answers a duplicate with 409 Conflict
PostAnswersExistingConflict(q) == Respond(q, 409, MsgExists)

\* lines 20-25: { error: "User already registered" }, status 400
PostAnswersExisting(q) == Respond(q, 400, MsgExists)

\* User.findOne({ email }): the first stored record with that email, or null
UserFindOne(coll, email) ==
    LET hits == {i \in DOMAIN coll : coll[i].email = email}
    IN  IF hits = {} THEN <<>>
        ELSE <<coll[CHOOSE i \in hits : \A j \in hits : i <= j]>>

\* User.create({ email, password }): the record is appended to the collection
UserCreate(coll, email, password) ==
    Append(coll, [email |-> email, password |-> password])

\* POST up to its first suspension on shared state: request.json() and the
\* destructuring of line 8 (either may throw), the check of line 9, and the synchronous part of connectDb (lines 16-23)
PostBegin(r, b) ==
    /\ UNCHANGED <<uploadVars, formVars>>
    /\ req[r].pc = "idle"
    /\ LET q == [req[r] EXCEPT !.body = b] IN
       IF b.parsed # "object"
       THEN /\ req' = [req EXCEPT ![r] = PostCatch([q EXCEPT !.threw = b.parsed])]
            /\ UNCHANGED <<cached, connects, readyState, users>>
       ELSE IF ~PostValidates(b)
       THEN /\ req' = [req EXCEPT ![r] = Respond(q, 400, MsgRequired)]
            /\ UNCHANGED <<cached, connects, readyState, users>>
       ELSE LET qc == [q EXCEPT !.connectDbCalls = @ + 1,
                                !.stateAtCall = readyState] IN
            IF ConnectDbReturnsCached(cached)
            THEN /\ req' = [req EXCEPT ![r] =
                              IssueFindOne([qc EXCEPT !.conn = cached.conn])]
                 /\ UNCHANGED <<cached, connects, readyState, users>>
            ELSE IF ConnectDbStartsConnect(cached)
            THEN LET p == Len(connects) + 1
                     c == [cached EXCEPT !.promise = PromiseAfterConnect(cached, p)]
                 IN  /\ connects' = Append(connects, MongooseConnectPromise(readyState))
                     /\ readyState' = MongooseConnectState(readyState)
                     /\ cached' = c
                     /\ req' = [req EXCEPT ![r] =
                                  [qc EXCEPT !.pc = "connectDb",
                                             !.connectsStarted = @ + 1,
                                             !.started = p,
                                             !.awaited = c.promise]]
                     /\ UNCHANGED users
            ELSE /\ req' = [req EXCEPT ![r] =
                              [qc EXCEPT !.pc = "connectDb",
                                         !.awaited = cached.promise]]
                 /\ UNCHANGED <<cached, connects, readyState, users>>

\* connectDb lines 22-28 once the awaited value has settled, and the
\* route's continuation (line 18, or the catch of line 37)
ConnectDbResume(r) ==
    /\ UNCHANGED <<uploadVars, formVars>>
    /\ req[r].pc = "connectDb"
    /\ AwaitSettled(req[r].awaited)
    /\ IF AwaitRejected(req[r].awaited)
       THEN /\ cached' = [cached EXCEPT !.promise = NoPromise]
            /\ req' = [req EXCEPT ![r] =
                         PostCatch([req[r] EXCEPT !.threw = "connectDb"])]
       ELSE /\ cached' = [cached EXCEPT !.conn = AwaitValue(req[r].awaited)]
            /\ req' = [req EXCEPT ![r] =
                         IssueFindOne([req[r] EXCEPT !.conn = cached'.conn])]
    /\ UNCHANGED <<connects, readyState, users>>

\* the connection attempt mongoose is making succeeds or fails
MongooseSettle(ok) ==
    /\ UNCHANGED <<uploadVars, formVars>>
    /\ readyState = "connecting"
    /\ readyState' = IF ok THEN "connected" ELSE "disconnected"
    /\ connects' = [i \in DOMAIN connects |->
                      IF connects[i] = "pending"
                      THEN (IF ok THEN "fulfilled" ELSE "rejected")
                      ELSE connects[i]]
    /\ UNCHANGED <<cached, users, req>>

\* line 18 returns; lines 19-27
FindOneReturns(r) ==
    /\ UNCHANGED <<uploadVars, formVars>>
    /\ req[r].pc = "findOne"
    /\ readyState = "connected"
    /\ LET isExist == UserFindOne(users, req[r].body.email)
           q == [req[r] EXCEPT !.lookup = "returned", !.isExist = isExist]
       IN  req' = [req EXCEPT ![r] =
                     IF PostRejectsExisting(isExist)
                     THEN PostAnswersExisting(q)
                     ELSE IssueCreate(q)]
    /\ UNCHANGED <<cached, connects, readyState, users>>

\* line 18 throws (buffering timeout, network or server error)
FindOneThrows(r) ==
    /\ UNCHANGED <<uploadVars, formVars>>
    /\ req[r].pc = "findOne"
    /\ req' = [req EXCEPT ![r] =
                 PostCatch([req[r] EXCEPT !.lookup = "threw", !.threw = "findOne"])]
    /\ UNCHANGED <<cached, connects, readyState, users>>

\* line 27 returns; lines 31-36
CreateReturns(r) ==
    /\ UNCHANGED <<uploadVars, formVars>>
    /\ req[r].pc = "create"
    /\ readyState = "connected"
    /\ users' = UserCreate(users, req[r].body.email, req[r].body.password)
    /\ req' = [req EXCEPT ![r] = Respond(req[r], 201, MsgCreated)]
    /\ UNCHANGED <<cached, connects, readyState>>

\* line 27 throws
CreateThrows(r) ==
    /\ UNCHANGED <<uploadVars, formVars>>
    /\ req[r].pc = "create"
    /\ req' = [req EXCEPT ![r] = PostCatch([req[r] EXCEPT !.threw = "create"])]
    /\ UNCHANGED <<cached, connects, readyState, users>>

NextServer ==
    \/ \E r \in Requests, b \in Bodies : PostBegin(r, b)
    \/ \E r \in Requests : ConnectDbResume(r)
    \/ \E ok \in BOOLEAN : MongooseSettle(ok)
    \/ \E r \in Requests : FindOneReturns(r)
    \/ \E r \in Requests : FindOneThrows(r)
    \/ \E r \in Requests : CreateReturns(r)
    \/ \E r \in Requests : CreateThrows(r)

\* ------------------------------------------------------------------------
\* upload-auth endpoint (GET)
\* ------------------------------------------------------------------------

\* process.env.IMAGEKIT_PRIVATE_KEY and process.env.NEXT_PUBLIC_PUBLIC_KEY
PrivateKeys == {"private_k1", "private_k2"}
PublicKeys == {"public_k1"}
UploadEnvs ==
    [privateKey : PrivateKeys \cup {Undefined},
     publicKey : PublicKeys \cup {Undefined}]

\* the token and expiry getUploadAuthParams generates
UploadTokens == {"token-1", "token-2"}
UploadExpires == {"1800"}

\* Values of a response body: a string in clear, or the HMAC of a message
\* under a key, from which the key cannot be read back.
Str(s) == [kind |-> "str", key |-> "", msg |-> <<s>>]
Hmac(k, m) == [kind |-> "hmac", key |-> k, msg |-> m]

MsgImageKitFailed == "Authentication for Image kit failed"

NoUpload ==
    [pc |-> "idle",
     env |-> [privateKey |-> Undefined, publicKey |-> Undefined],
     status |-> 0, body |-> <<>>]

\* getUploadAuthParams({ privateKey, publicKey }) needs both keys
UploadAuthParamsAccepts(env) == ~Falsy(env.privateKey) /\ ~Falsy(env.publicKey)

\* getUploadAuthParams: { token, expire, signature }
GetUploadAuthParams(env, token, expire) ==
    [token |-> Str(token), expire |-> Str(expire),
     signature |-> Hmac(env.privateKey, <<token, expire>>)]

\* a success body that also spreads the options passed to the library
UploadSuccessBodyWithOptions(env, params) ==
    [token |-> params.token, expire |-> params.expire,
     signature |-> params.signature, publicKey |-> Str(env.publicKey),
     privateKey |-> Str(env.privateKey)]

\* lines 10-13: { authentiationParameters, publicKey }
UploadSuccessBody(env, params) ==
    [token |-> params.token, expire |-> params.expire,
     signature |-> params.signature, publicKey |-> Str(env.publicKey)]

\* lines 15-18: { error: "Authentication for Image kit failed" }
UploadFailureBody(env) == [error |-> Str(MsgImageKitFailed)]

\* GET, lines 4-13: the try block completes
UploadGetReturns(i, env, token, expire) ==
    /\ upload[i].pc = "idle"
    /\ UploadAuthParamsAccepts(env)
    /\ upload' = [upload EXCEPT ![i] =
                    [pc |-> "done", env |-> env, status |-> 200,
                     body |-> UploadSuccessBody(env,
                                 GetUploadAuthParams(env, token, expire))]]
    /\ UNCHANGED <<serverVars, formVars>>

\* GET, lines 14-19: getUploadAuthParams threw (a key is missing, or any
\* other failure inside the library)
UploadGetThrows(i, env) ==
    /\ upload[i].pc = "idle"
    /\ upload' = [upload EXCEPT ![i] =
                    [pc |-> "done", env |-> env, status |-> 500,
                     body |-> UploadFailureBody(env)]]
    /\ UNCHANGED <<serverVars, formVars>>

NextUpload ==
    \/ \E i \in UploadRuns, env \in UploadEnvs,
          token \in UploadTokens, expire \in UploadExpires :
            UploadGetReturns(i, env, token, expire)
    \/ \E i \in UploadRuns, env \in UploadEnvs : UploadGetThrows(i, env)

\* ------------------------------------------------------------------------
\* Strings of the forms: sequences of one-character strings
\* ------------------------------------------------------------------------
MaxInflight == 2

Repeat(c, n) == [i \in 1..n |-> c]

LowerSeq ==
    <<"a", "b", "c", "d", "e", "f", "g", "h", "i", "j", "k", "l", "m",
      "n", "o", "p", "q", "r", "s", "t", "u", "v", "w", "x", "y", "z">>
UpperSeq ==
    <<"A", "B", "C", "D", "E", "F", "G", "H", "I", "J", "K", "L", "M",
      "N", "O", "P", "Q", "R", "S", "T", "U", "V", "W", "X", "Y", "Z">>

\* [a-z], [A-Z], \d, \s
LowerChars == {LowerSeq[i] : i \in DOMAIN LowerSeq}
UpperChars == {UpperSeq[i] : i \in DOMAIN UpperSeq}
DigitChars == {"0", "1", "2", "3", "4", "5", "6", "7", "8", "9"}
WhitespaceChars == {" ", "\t", "\n", "\r"}

\* the class [!@#$%^&*()_+\-=\[\]{};':"\\|,.<>\/?]
SpecialChars ==
    {"!", "@", "#", "$", "%", "^", "&", "*", "(", ")", "_", "+", "-", "=",
     "[", "]", "{", "}", ";", "'", ":", "\"", "\\", "|", ",", ".", "<", ">",
     "/", "?"}

Contains(s, class) == \E i \in DOMAIN s : s[i] \in class

\* String.prototype.trim
Trim(s) ==
    LET keep == {i \in DOMAIN s : s[i] \notin WhitespaceChars}
    IN  IF keep = {} THEN <<>>
        ELSE SubSeq(s,
                 CHOOSE i \in keep : \A j \in 1..(i - 1) : j \notin keep,
                 CHOOSE i \in keep : \A j \in (i + 1)..Len(s) : j \notin keep)

\* String.prototype.toLowerCase
ToLowerCase(s) ==
    [i \in DOMAIN s |->
        IF s[i] \in UpperChars
        THEN LowerSeq[CHOOSE k \in DOMAIN UpperSeq : UpperSeq[k] = s[i]]
        ELSE s[i]]

\* /^[^\s@]+@[^\s@]+\.[^\s@]+$/.test(s)
RegexEmail(s) ==
    \E i \in DOMAIN s :
        /\ s[i] = "@"
        /\ i > 1
        /\ \A k \in DOMAIN s \ {i} : s[k] \notin WhitespaceChars \cup {"@"}
        /\ \E j \in DOMAIN s : j > i + 1 /\ j < Len(s) /\ s[j] = "."

\* values typed into the email field: empty, valid with an upper-case
\* letter, no dot after the @, and a well-formed address of 255 characters
EmailPool ==
    { <<>>,
      <<"A", "@", "b", ".", "c", "o">>,
      <<"a", "@", "b">>,
      Repeat("a", 250) \o <<"@", "b", ".", "c", "o">> }

ValidPassword1 == <<"A", "a", "1", "!", "a", "a", "a", "a">>
ValidPassword2 == <<"B", "b", "2", "?", "b", "b", "b", "b">>
TildePassword == <<"A", "a", "1", "~", "a", "a", "a", "a">>
ShortPassword7 == <<"A", "a", "1", "!", "a", "a", "a">>
ShortPassword5 == <<"A", "a", "1", "!", "a">>

\* values typed into the password field: empty, two that meet every rule,
\* and one breaking each rule in turn (7 and 5 characters, no upper-case, no
\* lower-case, no digit, no character of the special class, 129 characters)
PasswordPool ==
    { <<>>,
      ValidPassword1,
      ValidPassword2,
      ShortPassword7,
      ShortPassword5,
      <<"a", "a", "1", "!", "a", "a", "a", "a">>,
      <<"A", "A", "1", "!", "A", "A", "A", "A">>,
      <<"A", "a", "!", "a", "a", "a", "a", "a">>,
      TildePassword,
      <<"A", "a", "1", "!">> \o Repeat("a", 125) }

\* values typed into the confirmation field
ConfirmPool == PasswordPool

\* what is typed into a field of a page: the register page is tried on every
\* value above; the login page, which has no upper limit on lengths and no
\* character rules, and the two pages without validation on the values
\* their conditions tell apart
FieldValues(p, field) ==
    IF p = "register" THEN
        IF field = "email" THEN EmailPool
        ELSE IF field = "password" THEN PasswordPool
        ELSE ConfirmPool
    ELSE IF p = "login" THEN
        IF field = "email"
        THEN {<<>>, <<" ">>, <<"A", "@", "b", ".", "c", "o">>, <<"a", "@", "b">>}
        ELSE {<<>>, ShortPassword5, ShortPassword7, ValidPassword1}
    ELSE
        IF field = "email"
        THEN {<<>>, <<"A", "@", "b", ".", "c", "o">>}
        ELSE {<<>>, ShortPassword5, ValidPassword1}

\* ------------------------------------------------------------------------
\* State shared by the page components (one is mounted at a time)
\* ------------------------------------------------------------------------
RegisterFields == {"email", "password", "confirmPassword"}
LoginFields == {"email", "password"}

Pages == {"register", "login", "legacyRegister", "legacyLogin"}

FieldsOf(p) ==
    IF p \in {"register", "legacyRegister"} THEN RegisterFields ELSE LoginFields

\* errors = {}
NoErrors == <<>>

\* { ...prev, [k]: v }
Put(e, k, v) == [x \in DOMAIN e \cup {k} |-> IF x = k THEN v ELSE e[x]]

\* e[k] read as a condition
Truthy(e, k) == IF k \in DOMAIN e THEN ~Falsy(e[k]) ELSE FALSE

\* ------------------------------------------------------------------------
\* app/register/page.tsx
\* ------------------------------------------------------------------------
MaxEmailLength == 254
MinPasswordLength == 8
MaxPasswordLength == 128

\* validateField without the digit rule of line 137
RegisterValidateFieldNoDigit(name, value, fd) ==
    IF name = "email" THEN
        IF Trim(value) = <<>> THEN "Email is required"
        ELSE IF ~RegexEmail(value) THEN "Please enter a valid email address"
        ELSE IF Len(value) > MaxEmailLength THEN "Email is too long"
        ELSE Undefined
    ELSE IF name = "password" THEN
        IF value = <<>> THEN "Password is required"
        ELSE IF Len(value) < MinPasswordLength
        THEN "Password must be at least 8 characters long"
        ELSE IF Len(value) > MaxPasswordLength THEN "Password is too long"
        ELSE IF ~Contains(value, LowerChars)
        THEN "Password must contain at least one lowercase letter"
        ELSE IF ~Contains(value, UpperChars)
        THEN "Password must contain at least one uppercase letter"
        ELSE IF ~Contains(value, SpecialChars)
        THEN "Password must contain at least one special character"
        ELSE Undefined
    ELSE IF name = "confirmPassword" THEN
        IF value = <<>> THEN "Please confirm your password"
        ELSE IF value # fd.password THEN "Passwords do not match"
        ELSE Undefined
    ELSE Undefined

\* validateField(name, value), fd being the formData its closure holds
RegisterValidateField(name, value, fd) ==
    IF name = "email" THEN
        IF Trim(value) = <<>> THEN "Email is required"
        ELSE IF ~RegexEmail(value) THEN "Please enter a valid email address"
        ELSE IF Len(value) > MaxEmailLength THEN "Email is too long"
        ELSE Undefined
    ELSE IF name = "password" THEN
        IF value = <<>> THEN "Password is required"
        ELSE IF Len(value) < MinPasswordLength
        THEN "Password must be at least 8 characters long"
        ELSE IF Len(value) > MaxPasswordLength THEN "Password is too long"
        ELSE IF ~Contains(value, LowerChars)
        THEN "Password must contain at least one lowercase letter"
        ELSE IF ~Contains(value, UpperChars)
        THEN "Password must contain at least one uppercase letter"
        ELSE IF ~Contains(value, DigitChars)
        THEN "Password must contain at least one number"
        ELSE IF ~Contains(value, SpecialChars)
        THEN "Password must contain at least one special character"
        ELSE Undefined
    ELSE IF name = "confirmPassword" THEN
        IF value = <<>> THEN "Please confirm your password"
        ELSE IF value # fd.password THEN "Passwords do not match"
        ELSE Undefined
    ELSE Undefined

\* validateForm leaving out the confirmPassword key
RegisterValidateFormSkipsConfirm(fd) ==
    LET e == [k \in RegisterFields |-> RegisterValidateField(k, fd[k], fd)]
    IN  [k \in {x \in RegisterFields : e[x] # Undefined /\ x # "confirmPassword"}
            |-> e[k]]

\* validateForm: the errors object it builds (it returns whether it is empty)
RegisterValidateForm(fd) ==
    LET e == [k \in RegisterFields |-> RegisterValidateField(k, fd[k], fd)]
    IN  [k \in {x \in RegisterFields : e[x] # Undefined} |-> e[k]]

\* isFormValid, the negation of which disables the submit button
RegisterIsFormValid ==
    /\ DOMAIN errors = {}
    /\ formData.email # <<>>
    /\ formData.password # <<>>
    /\ formData.confirmPassword # <<>>

\* handleInputChange's two setErrors calls: e and isTouched are the errors
\* and touched[field] its closure holds, msg is validateField(field, value)
ErrorsAfterChange(e, isTouched, field, msg) ==
    LET e1 == IF isTouched THEN Put(e, field, msg) ELSE e
    IN  IF Truthy(e, "submit") THEN Put(e1, "submit", Undefined) ELSE e1

\* the call a form makes to its backend, with the formData it was made from
Call(p, fd, email, password) ==
    [page |-> p, form |-> fd, email |-> email, password |-> password]

\* handleInputChange(field, value), lines 169-184
RegisterHandleInputChange(field, value) ==
    /\ page = "register"
    /\ formData' = [formData EXCEPT ![field] = value]
    /\ errors' = ErrorsAfterChange(errors, touched[field], field,
                     RegisterValidateField(field, value, formData))
    /\ UNCHANGED <<page, touched, isLoading, isGoogleLoading, inflight, sent,
                   location>>
    /\ UNCHANGED <<serverVars, uploadVars>>

\* handleBlur(field), lines 187-194
RegisterHandleBlur(field) ==
    /\ page = "register"
    /\ touched' = [touched EXCEPT ![field] = TRUE]
    /\ errors' = Put(errors, field,
                     RegisterValidateField(field, formData[field], formData))
    /\ UNCHANGED <<page, formData, isLoading, isGoogleLoading, inflight, sent,
                   location>>
    /\ UNCHANGED <<serverVars, uploadVars>>

\* handleSubmit up to the fetch, lines 197-223; the button that calls it is
\* disabled while isLoading || !isFormValid (line 520)
RegisterHandleSubmit ==
    /\ page = "register"
    /\ ~isLoading
    /\ RegisterIsFormValid
    /\ touched' = [f \in RegisterFields |-> TRUE]
    /\ LET newErrors == RegisterValidateForm(formData) IN
       IF DOMAIN newErrors # {}
       THEN /\ errors' = newErrors
            /\ UNCHANGED <<isLoading, inflight, sent>>
       ELSE /\ errors' = NoErrors
            /\ isLoading' = TRUE
            /\ inflight' = inflight + 1
            /\ sent' = sent \cup
                          {Call("register", formData,
                               ToLowerCase(Trim(formData.email)),
                               formData.password)}
    /\ UNCHANGED <<page, formData, isGoogleLoading, location>>
    /\ UNCHANGED <<serverVars, uploadVars>>

\* what fetch and response.json() can yield: a response with a status and a
\* body whose message may be absent, or a thrown Error
RegisterOutcomes ==
    [threw : {FALSE}, status : {201, 400, 403, 409, 500},
     message : {Undefined, "Email already in use"}]
    \cup {[threw |-> TRUE, status |-> 0, message |-> "Failed to fetch"]}

Or(v, d) == IF Falsy(v) THEN d ELSE v

\* lines 227-251: the errors object set for an outcome that is not ok
RegisterErrorsFor(o) ==
    IF o.threw THEN [submit |-> o.message]
    ELSE IF o.status = 409
    THEN [email |-> "An account with this email already exists"]
    ELSE IF o.status = 400
    THEN [submit |-> Or(o.message, "Invalid registration data")]
    ELSE IF o.status >= 500
    THEN [submit |-> "Server error. Please try again later."]
    ELSE [submit |-> Or(o.message, "Registration failed. Please try again.")]

\* response.ok
ResponseOk(o) == ~o.threw /\ o.status >= 200 /\ o.status <= 299

\* handleSubmit after the fetch, lines 225-254; router.push("/login?...")
\* mounts the login page with its initial state
RegisterHandleResponse(o) ==
    /\ page = "register"
    /\ inflight > 0
    /\ inflight' = inflight - 1
    /\ isLoading' = FALSE
    /\ IF ResponseOk(o)
       THEN /\ location' = "/login?message=Registration successful! Please log in."
            /\ page' = "login"
            /\ formData' = [f \in LoginFields |-> <<>>]
            /\ errors' = NoErrors
            /\ touched' = [f \in LoginFields |-> FALSE]
       ELSE /\ errors' = RegisterErrorsFor(o)
            /\ UNCHANGED <<page, location, formData, touched>>
    /\ UNCHANGED <<isGoogleLoading, sent>>
    /\ UNCHANGED <<serverVars, uploadVars>>

\* ------------------------------------------------------------------------
\* app/login/page.tsx
\* ------------------------------------------------------------------------
LoginMinPasswordLength == 6

\* validateField(name, value), lines 82-102
LoginValidateField(name, value) ==
    IF name = "email" THEN
        IF Trim(value) = <<>> THEN "Email is required"
        ELSE IF ~RegexEmail(value) THEN "Please enter a valid email address"
        ELSE Undefined
    ELSE IF name = "password" THEN
        IF value = <<>> THEN "Password is required"
        ELSE IF Len(value) < LoginMinPasswordLength
        THEN "Password must be at least 6 characters"
        ELSE Undefined
    ELSE Undefined

\* validateForm, lines 104-114
LoginValidateForm(fd) ==
    LET e == [k \in LoginFields |-> LoginValidateField(k, fd[k])]
    IN  [k \in {x \in LoginFields : e[x] # Undefined} |-> e[k]]

\* isFormValid, lines 234-235
LoginIsFormValid ==
    /\ DOMAIN errors = {}
    /\ formData.email # <<>>
    /\ formData.password # <<>>

\* handleInputChange(field, value), lines 117-132
LoginHandleInputChange(field, value) ==
    /\ page = "login"
    /\ formData' = [formData EXCEPT ![field] = value]
    /\ errors' = ErrorsAfterChange(errors, touched[field], field,
                     LoginValidateField(field, value))
    /\ UNCHANGED <<page, touched, isLoading, isGoogleLoading, inflight, sent,
                   location>>
    /\ UNCHANGED <<serverVars, uploadVars>>

\* handleBlur(field), lines 135-142
LoginHandleBlur(field) ==
    /\ page = "login"
    /\ touched' = [touched EXCEPT ![field] = TRUE]
    /\ errors' = Put(errors, field, LoginValidateField(field, formData[field]))
    /\ UNCHANGED <<page, formData, isLoading, isGoogleLoading, inflight, sent,
                   location>>
    /\ UNCHANGED <<serverVars, uploadVars>>

\* handleSubmit up to signIn, lines 145-165; the button is disabled while
\* isLoading || !isFormValid (line 402)
LoginHandleSubmit ==
    /\ page = "login"
    /\ ~isLoading
    /\ LoginIsFormValid
    /\ touched' = [f \in LoginFields |-> TRUE]
    /\ LET newErrors == LoginValidateForm(formData) IN
       IF DOMAIN newErrors # {}
       THEN /\ errors' = newErrors
            /\ UNCHANGED <<isLoading, inflight, sent>>
       ELSE /\ errors' = NoErrors
            /\ isLoading' = TRUE
            /\ inflight' = inflight + 1
            /\ sent' = sent \cup
                          {Call("login", formData,
                               ToLowerCase(Trim(formData.email)),
                               formData.password)}
    /\ UNCHANGED <<page, formData, isGoogleLoading, location>>
    /\ UNCHANGED <<serverVars, uploadVars>>

\* what signIn("credentials", { redirect: false }) can yield: undefined, a
\* SignInResponse, or a thrown Error
SignInResults ==
    [kind : {"result"}, ok : BOOLEAN,
     error : {Null, "CredentialsSignin", "EmailNotVerified", "UserNotFound",
              "TooManyAttempts", "Configuration"}]
    \cup {[kind |-> "undefined", ok |-> FALSE, error |-> Null],
          [kind |-> "throws", ok |-> FALSE, error |-> "Failed to fetch"]}

\* lines 167-209: the errors object set for a result that does not navigate
LoginErrorsFor(res) ==
    IF res.kind = "throws" THEN [submit |-> res.error]
    ELSE IF res.kind = "result" /\ ~Falsy(res.error) THEN
        IF res.error = "CredentialsSignin"
        THEN [submit |-> "Invalid email or password. Please try again."]
        ELSE IF res.error = "EmailNotVerified"
        THEN [submit |-> "Please verify your email before signing in."]
        ELSE IF res.error = "UserNotFound"
        THEN [email |-> "No account found with this email address."]
        ELSE IF res.error = "TooManyAttempts"
        THEN [submit |-> "Too many failed attempts. Please try again later."]
        ELSE [submit |-> res.error]
    ELSE [submit |-> "An unexpected error occurred. Please try again."]

\* lines 167, 194: no result?.error and result?.ok
LoginNavigates(res) == res.kind = "result" /\ Falsy(res.error) /\ res.ok

\* handleSubmit after signIn, lines 167-212
LoginHandleResult(res) ==
    /\ page = "login"
    /\ inflight > 0
    /\ inflight' = inflight - 1
    /\ isLoading' = FALSE
    /\ IF LoginNavigates(res)
       THEN /\ location' = "/"
            /\ page' = "left"
            /\ UNCHANGED errors
       ELSE /\ errors' = LoginErrorsFor(res)
            /\ UNCHANGED <<page, location>>
    /\ UNCHANGED <<formData, touched, isGoogleLoading, sent>>
    /\ UNCHANGED <<serverVars, uploadVars>>

\* handleGoogleSignIn up to signIn("google"), lines 218-223; its button is
\* disabled while isGoogleLoading (line 440)
LoginHandleGoogleSignIn ==
    /\ page = "login"
    /\ ~isGoogleLoading
    /\ isGoogleLoading' = TRUE
    /\ errors' = NoErrors
    /\ UNCHANGED <<page, formData, touched, isLoading, inflight, sent, location>>
    /\ UNCHANGED <<serverVars, uploadVars>>

\* handleGoogleSignIn after signIn("google"), lines 224-231: the browser is
\* redirected to the provider, or signIn throws
LoginGoogleSettles(threw) ==
    /\ page = "login"
    /\ isGoogleLoading
    /\ isGoogleLoading' = FALSE
    /\ IF threw
       THEN /\ errors' = [submit |-> "Google sign in failed. Please try again."]
            /\ UNCHANGED page
       ELSE /\ page' = "left"
            /\ UNCHANGED errors
    /\ UNCHANGED <<formData, touched, isLoading, inflight, sent, location>>
    /\ UNCHANGED <<serverVars, uploadVars>>

\* ------------------------------------------------------------------------
\* RegisterPage of unnamed/part_002 (useState fields, no validation state)
\* ------------------------------------------------------------------------

\* setEmail / setPassword / setConfirmPasswsord, lines 43-61
LegacyRegisterChange(field, value) ==
    /\ page = "legacyRegister"
    /\ formData' = [formData EXCEPT ![field] = value]
    /\ UNCHANGED <<page, errors, touched, isLoading, isGoogleLoading, inflight,
                   sent, location>>
    /\ UNCHANGED <<serverVars, uploadVars>>

\* line 13: if (password != confirmPassword) { alert; return }
LegacyRegisterMismatch(fd) == fd.password # fd.confirmPassword

\* handleSubmit up to the fetch, lines 11-27
LegacyRegisterSubmit ==
    /\ page = "legacyRegister"
    /\ inflight < MaxInflight
    /\ IF LegacyRegisterMismatch(formData)
       THEN UNCHANGED <<inflight, sent>>
       ELSE /\ inflight' = inflight + 1
            /\ sent' = sent \cup
                          {Call("legacyRegister", formData, formData.email,
                                formData.password)}
    /\ UNCHANGED <<page, formData, errors, touched, isLoading, isGoogleLoading,
                   location>>
    /\ UNCHANGED <<serverVars, uploadVars>>

\* handleSubmit after the fetch, lines 28-35: router.push("/login") when
\* res.ok, alert otherwise. Where this component is mounted is not known, so
\* the page it navigates to is not followed.
LegacyRegisterResponse(ok) ==
    /\ page = "legacyRegister"
    /\ inflight > 0
    /\ inflight' = inflight - 1
    /\ IF ok
       THEN location' = "/login" /\ page' = "left"
       ELSE UNCHANGED <<page, location>>
    /\ UNCHANGED <<formData, errors, touched, isLoading, isGoogleLoading, sent>>
    /\ UNCHANGED <<serverVars, uploadVars>>

\* ------------------------------------------------------------------------
\* LoginPage of unnamed/part_000
\* ------------------------------------------------------------------------

\* setEmail / setPassword, lines 29-40
LegacyLoginChange(field, value) ==
    /\ page = "legacyLogin"
    /\ formData' = [formData EXCEPT ![field] = value]
    /\ UNCHANGED <<page, errors, touched, isLoading, isGoogleLoading, inflight,
                   sent, location>>
    /\ UNCHANGED <<serverVars, uploadVars>>

\* handleSubmit up to signIn, lines 11-17
LegacyLoginSubmit ==
    /\ page = "legacyLogin"
    /\ inflight < MaxInflight
    /\ inflight' = inflight + 1
    /\ sent' = sent \cup
                  {Call("legacyLogin", formData, formData.email,
                        formData.password)}
    /\ UNCHANGED <<page, formData, errors, touched, isLoading, isGoogleLoading,
                   location>>
    /\ UNCHANGED <<serverVars, uploadVars>>

\* line 18: if (result?.error) logs, else router.push("/")
LegacyLoginNavigates(res) == ~(res.kind = "result" /\ ~Falsy(res.error))

\* handleSubmit after signIn, lines 18-22; a thrown signIn rejects the
\* handler before line 18
LegacyLoginResult(res) ==
    /\ page = "legacyLogin"
    /\ inflight > 0
    /\ inflight' = inflight - 1
    /\ IF res.kind # "throws" /\ LegacyLoginNavigates(res)
       THEN location' = "/" /\ page' = "left"
       ELSE UNCHANGED <<page, location>>
    /\ UNCHANGED <<formData, errors, touched, isLoading, isGoogleLoading, sent>>
    /\ UNCHANGED <<serverVars, uploadVars>>

NextForms ==
    \/ \E f \in RegisterFields : \E v \in FieldValues("register", f) :
          RegisterHandleInputChange(f, v)
    \/ \E f \in RegisterFields : RegisterHandleBlur(f)
    \/ RegisterHandleSubmit
    \/ \E o \in RegisterOutcomes : RegisterHandleResponse(o)
    \/ \E f \in LoginFields : \E v \in FieldValues("login", f) :
          LoginHandleInputChange(f, v)
    \/ \E f \in LoginFields : LoginHandleBlur(f)
    \/ LoginHandleSubmit
    \/ \E res \in SignInResults : LoginHandleResult(res)
    \/ LoginHandleGoogleSignIn
    \/ \E threw \in BOOLEAN : LoginGoogleSettles(threw)
    \/ \E f \in RegisterFields : \E v \in FieldValues("legacyRegister", f) :
          LegacyRegisterChange(f, v)
    \/ LegacyRegisterSubmit
    \/ \E ok \in BOOLEAN : LegacyRegisterResponse(ok)
    \/ \E f \in LoginFields : \E v \in FieldValues("legacyLogin", f) :
          LegacyLoginChange(f, v)
    \/ LegacyLoginSubmit
    \/ \E res \in SignInResults : LegacyLoginResult(res)

vars == <<cached, connects, readyState, users, req, upload, page, formData,
          errors, touched, isLoading, isGoogleLoading, inflight, sent, location>>

\* the server process after module load, no page mounted
Init ==
    /\ cached = [conn |-> Null, promise |-> NoPromise]
    /\ connects = <<>>
    /\ readyState = "disconnected"
    /\ users = <<>>
    /\ req = [r \in Requests |-> NewRequest]
    /\ upload = [i \in UploadRuns |-> NoUpload]
    /\ page = "none"
    /\ formData = <<>>
    /\ errors = NoErrors
    /\ touched = <<>>
    /\ isLoading = FALSE
    /\ isGoogleLoading = FALSE
    /\ inflight = 0
    /\ sent = {}
    /\ location = ""

\* one of the page components after its first render (useState initial values)
InitBrowser ==
    /\ cached = [conn |-> Null, promise |-> NoPromise]
    /\ connects = <<>>
    /\ readyState = "disconnected"
    /\ users = <<>>
    /\ req = [r \in Requests |-> NewRequest]
    /\ upload = [i \in UploadRuns |-> NoUpload]
    /\ page \in Pages
    /\ formData = [f \in FieldsOf(page) |-> <<>>]
    /\ errors = NoErrors
    /\ touched = [f \in FieldsOf(page) |-> FALSE]
    /\ isLoading = FALSE
    /\ isGoogleLoading = FALSE
    /\ inflight = 0
    /\ sent = {}
    /\ location = ""

\* the server process: connectDb and the register route
Spec == Init /\ [][NextServer]_vars

\* the server process with its event loop: the continuation of a settled
\* await runs, and a query that was issued returns or throws (mongoose ends
\* a buffered query with a timeout error when no connection comes up)
SpecLive ==
    /\ Init
    /\ [][NextServer]_vars
    /\ \A r \in Requests :
         /\ WF_vars(ConnectDbResume(r))
         /\ WF_vars(FindOneReturns(r) \/ FindOneThrows(r))
         /\ WF_vars(CreateReturns(r) \/ CreateThrows(r))

\* the upload-auth endpoint
SpecUpload == Init /\ [][NextUpload]_vars

\* the browser: one page component mounted, its handlers called in any order
SpecForms == InitBrowser /\ [][NextForms]_vars

\* ------------------------------------------------------------------------
\* The register page talking to the register route
\* ------------------------------------------------------------------------

\* the characters of a form value as the string JSON.stringify writes and
\* request.json() reads back
RECURSIVE Join(_)
Join(s) == IF s = <<>> THEN "" ELSE s[1] \o Join(Tail(s))

\* the request whose body is the page's fetch; the others come from other
\* clients
PageRequest == 1

\* body: JSON.stringify({ email, password }) of the call, as the route parses it
PageBody(c) ==
    [parsed |-> "object", email |-> Join(c.email), password |-> Join(c.password)]

\* bodies other clients post: the address the page registers, or another
OtherBodies ==
    [parsed : {"object"}, email : {"a@b.co", "b@x.io"},
     password : ServerPasswords]

\* NextResponse.json(...): 201 carries { message }, every 400 carries { error }
ResponseJson(resp) ==
    IF resp.status = 201 THEN [message |-> resp.text] ELSE [error |-> resp.text]

\* what the page's fetch and response.json() yield for a response of the route
FetchOutcome(resp) ==
    LET data == ResponseJson(resp) IN
    [threw |-> FALSE, status |-> resp.status,
     message |-> IF "message" \in DOMAIN data THEN data.message ELSE Undefined]

\* the page's request reaches the route
AppPostFromPage ==
    /\ inflight > 0
    /\ \E c \in sent : c.page = "register" /\ PostBegin(PageRequest, PageBody(c))

\* another client's request reaches the route
AppPostFromOther(r, b) == r # PageRequest /\ PostBegin(r, b)

\* the route's response reaches the page
AppRegisterReceives ==
    /\ req[PageRequest].pc = "done"
    /\ RegisterHandleResponse(FetchOutcome(req[PageRequest].response))

\* the page's fetch fails (the network is down)
AppFetchFails ==
    /\ req[PageRequest].pc = "idle"
    /\ RegisterHandleResponse(
          [threw |-> TRUE, status |-> 0, message |-> "Failed to fetch"])

NextApp ==
    \/ RegisterHandleSubmit
    \/ AppPostFromPage
    \/ \E r \in Requests, b \in OtherBodies : AppPostFromOther(r, b)
    \/ \E r \in Requests : ConnectDbResume(r)
    \/ \E ok \in BOOLEAN : MongooseSettle(ok)
    \/ \E r \in Requests : FindOneReturns(r)
    \/ \E r \in Requests : FindOneThrows(r)
    \/ \E r \in Requests : CreateReturns(r)
    \/ \E r \in Requests : CreateThrows(r)
    \/ AppRegisterReceives
    \/ AppFetchFails

\* a fresh server process and the register page with its form filled in
\* (no field blurred, so no error is set)
InitApp ==
    /\ cached = [conn |-> Null, promise |-> NoPromise]
    /\ connects = <<>>
    /\ readyState = "disconnected"
    /\ users = <<>>
    /\ req = [r \in Requests |-> NewRequest]
    /\ upload = [i \in UploadRuns |-> NoUpload]
    /\ page = "register"
    /\ \E pw \in {ValidPassword1, ValidPassword2} :
          formData = [email |-> <<"A", "@", "b", ".", "c", "o">>,
                      password |-> pw, confirmPassword |-> pw]
    /\ errors = NoErrors
    /\ touched = [f \in RegisterFields |-> FALSE]
    /\ isLoading = FALSE
    /\ isGoogleLoading = FALSE
    /\ inflight = 0
    /\ sent = {}
    /\ location = ""

\* the register page, the register route and other clients of the route
SpecApp == InitApp /\ [][NextApp]_vars

\* ------------------------------------------------------------------------
\* Claims about connectDb and the register route
\* ------------------------------------------------------------------------

NoAttemptFailed == \A i \in DOMAIN connects : connects[i] # "rejected"

Resolved(r) == req[r].conn # Undefined

\* C1: over any sequence of connectDb calls in which no connection attempt
\* fails, mongoose.connect is invoked at most once.
C1_ConnectAtMostOnce == NoAttemptFailed => connectCalls <= 1

\* C2: a connectDb call that begins while an earlier call's connection is
\* still in flight awaits the cached promise, starts no second connection
\* attempt, and resolves to the same handle as every other call.
C2_SecondCallJoinsInFlight ==
    \A r \in Requests :
        req[r].stateAtCall = "connecting" =>
            /\ req[r].connectsStarted = 0
            /\ req[r].awaited # NoPromise
            /\ \A o \in Requests :
                 (Resolved(r) /\ Resolved(o)) => req[r].conn = req[o].conn

\* C3: whenever connectDb resolves, the value it returns is the established
\* connection handle, and cached.conn holds that handle from then on.
C3_ResolvesToConnection ==
    \A r \in Requests :
        Resolved(r) => req[r].conn = Connection /\ cached.conn = Connection

\* C4: User.create is invoked only after the request's User.findOne has
\* returned no record; a request whose lookup found a record never calls
\* User.create.
C4_CreateOnlyAfterEmptyLookup ==
    \A r \in Requests :
        /\ req[r].createCalls > 0 =>
              /\ req[r].findOneCalls = 1
              /\ req[r].lookup = "returned"
              /\ req[r].isExist = <<>>
        /\ req[r].isExist # <<>> => req[r].createCalls = 0

C4_Witness ==
    \E r, o \in Requests :
        /\ req[r].createCalls = 1 /\ req[r].response.status = 201
        /\ req[o].lookup = "returned" /\ req[o].isExist # <<>>
        /\ req[o].pc = "done"

\* C5: in every reachable state the user collection holds at most one record
\* per email.
C5_OneRecordPerEmail ==
    \A i, j \in DOMAIN users : users[i].email = users[j].email => i = j

\* C6: each request performs at most one findOne and at most one create,
\* each connectDb call starts at most one connection attempt, and a request
\* in which an operation threw has ended without issuing anything further.
C6_NoRetries ==
    \A r \in Requests :
        /\ req[r].findOneCalls <= 1
        /\ req[r].createCalls <= 1
        /\ req[r].connectDbCalls <= 1
        /\ req[r].connectsStarted <= 1
        /\ req[r].threw # "" => req[r].pc = "done"
        /\ req[r].threw = "findOne" => req[r].createCalls = 0

C6_Witness ==
    \E r, o \in Requests :
        /\ req[r].threw = "findOne" /\ req[r].pc = "done"
        /\ req[r].findOneCalls = 1 /\ req[r].createCalls = 0
        /\ req[o].threw = "create" /\ req[o].pc = "done"
        /\ req[o].createCalls = 1

\* the body is an object and email or password is missing or empty
MissingFields(b) == b.parsed = "object" /\ (Falsy(b.email) \/ Falsy(b.password))

\* the body was parsed and holds no email or no password (null holds neither)
MissingFieldsOrNull(b) ==
    b.parsed # "throws" /\ (Falsy(b.email) \/ Falsy(b.password))

NoCalls(q) ==
    /\ q.connectDbCalls = 0
    /\ q.connectsStarted = 0
    /\ q.findOneCalls = 0
    /\ q.createCalls = 0

\* C10 (as stated): a request whose body has a missing or empty email or
\* password is answered 400 "Email and passowrd are required" without any
\* call of connectDb, User.findOne or User.create, the user collection and
\* the connection cache unchanged.
C10_Original ==
    /\ [](\A r \in Requests :
            (req[r].pc # "idle" /\ MissingFieldsOrNull(req[r].body)) =>
                /\ req[r].response = [status |-> 400, text |-> MsgRequired]
                /\ NoCalls(req[r]))
    /\ [][\A r \in Requests :
            (req[r].pc = "idle" /\ req'[r].pc # "idle"
                /\ MissingFieldsOrNull(req'[r].body)) =>
                UNCHANGED <<cached, connects, readyState, users>>]_vars

\* C10 (amended): a request whose body is an object (any JSON value but
\* null) with a missing or empty email or password is answered 400 "Email
\* and passowrd are required" without any call of connectDb, User.findOne or
\* User.create, and the step that answers it leaves the user collection and
\* the connection cache unchanged; a null body is answered 400 "Failed to
\* register user", also without any of those calls.
C10_MissingFieldsRejected ==
    /\ [](\A r \in Requests :
            /\ (req[r].pc # "idle" /\ MissingFields(req[r].body)) =>
                /\ req[r].response = [status |-> 400, text |-> MsgRequired]
                /\ NoCalls(req[r])
            /\ (req[r].pc # "idle" /\ req[r].body.parsed = "null") =>
                /\ req[r].response = [status |-> 400, text |-> MsgFailed]
                /\ NoCalls(req[r]))
    /\ [][\A r \in Requests :
            (req[r].pc = "idle" /\ req'[r].pc # "idle"
                /\ MissingFieldsOrNull(req'[r].body)) =>
                UNCHANGED <<cached, connects, readyState, users>>]_vars

C10_Witness ==
    \E r, o \in Requests :
        /\ req[r].body.parsed = "object" /\ req[r].body.email \in ServerEmails
        /\ req[r].body.password = ""
        /\ req[r].response = [status |-> 400, text |-> MsgRequired]
        /\ req[o].body.parsed = "null"
        /\ req[o].response = [status |-> 400, text |-> MsgFailed]
        /\ users = <<>> /\ connects = <<>>

\* some stored record carries the email
Stored(coll, email) == \E i \in DOMAIN coll : coll[i].email = email

\* the step in which request r's User.findOne returns
LookupReturnsFor(r) == req[r].lookup = "pending" /\ req'[r].lookup = "returned"

\* C11: when a record with the request's email is stored at the time its
\* lookup returns, the request is answered 400 "User already registered" in
\* that step, the step leaves the user collection unchanged, and the request
\* never calls User.create.
C11_ExistingEmailRejected ==
    /\ [][\A r \in Requests :
            (LookupReturnsFor(r) /\ Stored(users, req[r].body.email)) =>
                /\ req'[r].pc = "done"
                /\ req'[r].response = [status |-> 400, text |-> MsgExists]
                /\ users' = users]_vars
    /\ [](\A r \in Requests :
            req[r].isExist # <<>> =>
                /\ req[r].response = [status |-> 400, text |-> MsgExists]
                /\ req[r].createCalls = 0)

C11_Witness ==
    \E r \in Requests :
        /\ req[r].isExist # <<>>
        /\ req[r].isExist[1].email = req[r].body.email
        /\ req[r].response = [status |-> 400, text |-> MsgExists]
        /\ Len(users) = 1

\* the step in which request r is answered with status 201
Answers201(r) == req[r].response.status # 201 /\ req'[r].response.status = 201

\* C12: a request is answered 201 in exactly the step in which it inserts
\* a record, and in no other way; that step appends one record carrying the
\* request's email and password and leaves every stored record as it was.
C12_CreatedIffInserted ==
    [][\A r \in Requests :
          /\ (req'[r] # req[r] /\ users' # users) <=> Answers201(r)
          /\ Answers201(r) =>
                /\ Len(users') = Len(users) + 1
                /\ SubSeq(users', 1, Len(users)) = users
                /\ users'[Len(users')] =
                      [email |-> req[r].body.email,
                       password |-> req[r].body.password]
                /\ req'[r].pc = "done"]_vars

C12_Witness ==
    \E r, o \in Requests :
        /\ req[r].response = [status |-> 201, text |-> MsgCreated]
        /\ req[o].response = [status |-> 201, text |-> MsgCreated]
        /\ r # o
        /\ Len(users) = 2
        /\ users[1].email # users[2].email
        /\ users[2] = [email |-> req[r].body.email,
                       password |-> req[r].body.password]

Answered(r) == req[r].response # NoResponse

AttemptFailed(r) ==
    IF req[r].started = NoPromise THEN FALSE
    ELSE connects[req[r].started] = "rejected"

\* C14: a connectDb call whose connection attempt failed has, once it is
\* past its await, rethrown the error to the route, which then issues no
\* query.
C14_FailedConnectRethrown ==
    \A r \in Requests :
        (AttemptFailed(r) /\ req[r].pc # "connectDb") =>
            /\ req[r].threw = "connectDb"
            /\ req[r].findOneCalls = 0

\* the step in which request r issues User.findOne
IssuesFindOne(r) == req'[r].findOneCalls > req[r].findOneCalls

\* C15: User.findOne is issued only when connectDb has resolved with the
\* connection handle and the connection is established; a request whose
\* connection attempt failed issues neither findOne nor create and is
\* answered 400 "Failed to register user".
C15_FindOneAfterConnected ==
    /\ [][\A r \in Requests :
            IssuesFindOne(r) =>
                /\ req'[r].conn = Connection
                /\ readyState' = "connected"]_vars
    /\ [](\A r \in Requests :
            (AttemptFailed(r) /\ req[r].pc # "connectDb") =>
                /\ req[r].findOneCalls = 0
                /\ req[r].createCalls = 0
                /\ req[r].response = [status |-> 400, text |-> MsgFailed])

\* the step in which the page handles the route's answer "already registered"
ReceivesAlreadyRegistered ==
    /\ inflight' < inflight
    /\ req[PageRequest].response = [status |-> 400, text |-> MsgExists]

\* C16: when the route has rejected the page's request because the email is
\* already registered, the page sets errors.email to "An account with this
\* email already exists" and stays on the register page.
C16_DuplicateShownOnEmailField ==
    [][ReceivesAlreadyRegistered =>
          /\ "email" \in DOMAIN errors'
          /\ errors'["email"] = "An account with this email already exists"
          /\ page' = "register"
          /\ location' = location]_vars

\* ------------------------------------------------------------------------
\* Claims about the upload-auth endpoint
\* ------------------------------------------------------------------------

\* the strings a client reads in a response body
ClearText(body) ==
    {body[f].msg[1] : f \in {g \in DOMAIN body : body[g].kind = "str"}}

UploadDone(i) == upload[i].pc = "done"

\* C7: no response of the upload-auth endpoint contains the private key; a
\* successful response carries only the auth parameters and the public key,
\* a failure response only the fixed error text with status 500; two runs
\* that differ only in the private key and both fail answer the same.
C7_PrivateKeyNeverExposed ==
    /\ \A i \in UploadRuns :
         UploadDone(i) =>
            /\ upload[i].env.privateKey \notin ClearText(upload[i].body)
            /\ upload[i].status \in {200, 500}
            /\ upload[i].status = 200 =>
                 /\ DOMAIN upload[i].body =
                      {"token", "expire", "signature", "publicKey"}
                 /\ upload[i].body.publicKey = Str(upload[i].env.publicKey)
            /\ upload[i].status = 500 =>
                 upload[i].body = [error |-> Str(MsgImageKitFailed)]
    /\ \A i, j \in UploadRuns :
         (/\ UploadDone(i) /\ UploadDone(j)
          /\ upload[i].status = 500 /\ upload[j].status = 500
          /\ upload[i].env.publicKey = upload[j].env.publicKey)
         => (upload[i].status = upload[j].status
                /\ upload[i].body = upload[j].body)

C7_Witness ==
    \E i, j, k \in UploadRuns :
        /\ UploadDone(i) /\ UploadDone(j) /\ UploadDone(k)
        /\ upload[i].status = 500 /\ upload[j].status = 500
        /\ upload[i].env.publicKey = upload[j].env.publicKey
        /\ upload[i].env.privateKey = "private_k1"
        /\ upload[j].env.privateKey = "private_k2"
        /\ upload[k].status = 200
        /\ upload[k].env.privateKey \in PrivateKeys

\* ------------------------------------------------------------------------
\* Claims about the forms
\* ------------------------------------------------------------------------

LetterOrDigit == LowerChars \cup UpperChars \cup DigitChars

C9_NeverSendsMismatch ==
    \A c \in sent :
        c.page \in {"register", "legacyRegister"} =>
            /\ c.form.password = c.form.confirmPassword
            /\ c.password = c.form.confirmPassword

C9_Witness ==
    \E c \in sent :
        /\ c.page = "register"
        /\ c.form.confirmPassword = ValidPassword2
        /\ page = "register"
        /\ formData.password # formData.confirmPassword

\* signIn returned a result with ok true and no error
SignedIn(res) == res.kind = "result" /\ res.ok /\ Falsy(res.error)

\* a login page's handleSubmit runs on with res as the outcome of signIn
LoginContinuesWith(res) == LoginHandleResult(res) \/ LegacyLoginResult(res)

\* C17: a login page pushes "/" only on a result with ok true and no
\* error; on a result carrying an error, an undefined result or a thrown
\* exception it does not navigate and leaves errors.submit set (errors.email
\* for "UserNotFound").
C17_NavigatesOnlyWhenSignedIn ==
    [][\A res \in SignInResults :
          (LoginContinuesWith(res) /\ ~SignedIn(res)) =>
              /\ location' = location
              /\ page' = page
              /\ IF res.error = "UserNotFound"
                 THEN Truthy(errors', "email")
                 ELSE Truthy(errors', "submit")]_vars

====
